---- MODULE Spec2Model ----
(***************************************************************************)
(* A model of meshqem, the QEM edge-collapse simplifier of ConvertAsset    *)
(* (native/meshqem/src).  One run of qem_simplify is a state machine: the  *)
(* set-up (targets, per-vertex quadrics, adjacency, heap seeding), one     *)
(* step per iteration of the collapse loop, and the final compaction.      *)
(*                                                                         *)
(* Numbers.  The code works in double precision.  The model works in exact *)
(* rationals <<n, d>> (d > 0, lowest terms) on inputs with small integer   *)
(* coordinates.  Two candidates whose exact costs are equal are popped in  *)
(* either order (the order std::priority_queue and rounding would pick is  *)
(* not fixed by the code), two candidates whose exact costs differ are     *)
(* popped cheapest first.                                                  *)
(***************************************************************************)
EXTENDS Integers, Sequences, FiniteSets, Bags, TLC

(***************************************************************************)
(* Arrays are 0-based in the code and sequences here: At(s, i) is s[i].    *)
(***************************************************************************)
At(s, i) == s[i + 1]
Idx(s) == 0 .. (Len(s) - 1)
SetAt(s, i, x) == [s EXCEPT ![i + 1] = x]
Range(s) == {s[i] : i \in 1 .. Len(s)}

(***************************************************************************)
(* Exact rationals standing for the code's doubles.                        *)
(***************************************************************************)
Abs(n) == IF n < 0 THEN -n ELSE n

RECURSIVE Gcd(_, _)
Gcd(a, b) == IF b = 0 THEN a ELSE Gcd(b, a % b)

Rat(n, d) ==
    LET s == IF d < 0 THEN -1 ELSE 1
        g == Gcd(Abs(n), Abs(d))
    IN  IF n = 0 THEN <<0, 1>> ELSE <<(s * n) \div g, (s * d) \div g>>

RZero == <<0, 1>>
ROne == <<1, 1>>
RInt(n) == <<n, 1>>
RAdd(x, y) == IF x[1] = 0 THEN y ELSE IF y[1] = 0 THEN x
              ELSE Rat(x[1] * y[2] + y[1] * x[2], x[2] * y[2])
RNeg(x) == <<-x[1], x[2]>>
RSub(x, y) == RAdd(x, RNeg(y))
RMul(x, y) == IF x[1] = 0 \/ y[1] = 0 THEN RZero ELSE Rat(x[1] * y[1], x[2] * y[2])
RDiv(x, y) == IF x[1] = 0 THEN RZero ELSE Rat(x[1] * y[2], x[2] * y[1])
RAbs(x) == <<Abs(x[1]), x[2]>>
RLt(x, y) == x[1] * y[2] < y[1] * x[2]
RHalf(x) == RMul(x, <<1, 2>>)
RFloor(x) == x[1] \div x[2]

(***************************************************************************)
(* x < 1e-12 for x >= 0 (qem.cpp:47 and qem.cpp:93).  Every non-zero       *)
(* rational the model can hold has a numerator >= 1 and a denominator      *)
(* below 2^31, so it exceeds 1e-12: the test is "x is zero".               *)
(***************************************************************************)
BelowEps(x) == x[1] = 0

(***************************************************************************)
(* Vec3 and the vector helpers (mesh.hpp, qem.cpp:34-37).                  *)
(***************************************************************************)
Vec3(x, y, z) == [x |-> x, y |-> y, z |-> z]
sub(a, b) == Vec3(RSub(a.x, b.x), RSub(a.y, b.y), RSub(a.z, b.z))
cross(a, b) ==
    Vec3(RSub(RMul(a.y, b.z), RMul(a.z, b.y)),
         RSub(RMul(a.z, b.x), RMul(a.x, b.z)),
         RSub(RMul(a.x, b.y), RMul(a.y, b.x)))
dot3(a, b) == RAdd(RAdd(RMul(a.x, b.x), RMul(a.y, b.y)), RMul(a.z, b.z))
\* len3(n)^2: the length itself is a square root, which the model never needs
len3sq(a) == dot3(a, a)
midpoint(p, q) == Vec3(RHalf(RAdd(p.x, q.x)), RHalf(RAdd(p.y, q.y)), RHalf(RAdd(p.z, q.z)))

(***************************************************************************)
(* Quadric: 16 coefficients, row-major, m[0..15] (qem.hpp:10).             *)
(***************************************************************************)
q_zero == [i \in 0 .. 15 |-> RZero]
q_sum(A, B) == [i \in 0 .. 15 |-> RAdd(A[i], B[i])]
q_add(A, B) == q_sum(A, B)

(***************************************************************************)
(* The plane quadric of a triangle (qem.cpp:91-95): K = p p^T for          *)
(* p = [n/L, d], n = (q-p) x (r-p), L = |n|, d = -(n/L).p.  Each entry of  *)
(* K is a product of two components of p, i.e. N[r]*N[c] / L^2 for the     *)
(* unnormalised N = [n, -(n.p)]: rational, with no square root left.       *)
(***************************************************************************)
TriNormal(p, q, r) == cross(sub(q, p), sub(r, p))
PlaneVector(n, p) == <<n.x, n.y, n.z, RNeg(dot3(n, p))>>
OuterOver(N, L2) == [k \in 0 .. 15 |-> RDiv(RMul(N[(k \div 4) + 1], N[(k % 4) + 1]), L2)]
plane_quadric(n, p) == OuterOver(PlaneVector(n, p), len3sq(n))

(***************************************************************************)
(* solve3 (qem.cpp:41-57): Gaussian elimination with partial pivoting on   *)
(* the augmented 3x4 matrix M (rows and columns 1-based here); the result  *)
(* is [ok |-> FALSE] when a pivot is below 1e-12.                          *)
(***************************************************************************)
\* is |M[r][i]| > |M[s][i]| (qem.cpp:46)
AbsGreater(M, i, r, s) == RLt(RAbs(M[s][i]), RAbs(M[r][i]))

\* the pivot row of column i: the first of the rows i..3 whose entry is largest
PivotRow(M, i) ==
    IF i = 3 THEN 3
    ELSE IF i = 2 THEN (IF AbsGreater(M, 2, 3, 2) THEN 3 ELSE 2)
    ELSE IF AbsGreater(M, 1, 2, 1)
         THEN (IF AbsGreater(M, 1, 3, 2) THEN 3 ELSE 2)
         ELSE (IF AbsGreater(M, 1, 3, 1) THEN 3 ELSE 1)

\* std::swap of the rows i and j (qem.cpp:48)
SwapRows(M, i, j) ==
    <<IF i = 1 THEN M[j] ELSE IF j = 1 THEN M[i] ELSE M[1],
      IF i = 2 THEN M[j] ELSE IF j = 2 THEN M[i] ELSE M[2],
      IF i = 3 THEN M[j] ELSE IF j = 3 THEN M[i] ELSE M[3]>>

\* the pivot row divided by its pivot (qem.cpp:50)
NormalizeRow(row, div) ==
    <<RDiv(row[1], div), RDiv(row[2], div), RDiv(row[3], div), RDiv(row[4], div)>>

\* a row below the pivot row, f times the pivot row taken off its columns i..4
\* (qem.cpp:52)
ReduceRow(row, prow, f, i) ==
    <<IF 1 < i THEN row[1] ELSE RSub(row[1], RMul(f, prow[1])),
      IF 2 < i THEN row[2] ELSE RSub(row[2], RMul(f, prow[2])),
      IF 3 < i THEN row[3] ELSE RSub(row[3], RMul(f, prow[3])),
      RSub(row[4], RMul(f, prow[4]))>>

\* rows below i reduced by the normalized pivot row prow
EliminateBelow(S, i, prow) ==
    <<IF i = 1 THEN prow ELSE S[1],
      IF i = 2 THEN prow ELSE IF i < 2 THEN ReduceRow(S[2], prow, S[2][i], i) ELSE S[2],
      IF i = 3 THEN prow ELSE ReduceRow(S[3], prow, S[3][i], i)>>

\* one round of the elimination on the swapped matrix S (qem.cpp:50-52)
EliminateSwapped(S, i) == EliminateBelow(S, i, NormalizeRow(S[i], S[i][i]))

EliminateStep(M, i) == EliminateSwapped(SwapRows(M, i, PivotRow(M, i)), i)

\* pv < 1e-12 for the pivot of column i (qem.cpp:45-47)
Singular(M, i) == BelowEps(RAbs(M[PivotRow(M, i)][i]))

NoSolution == [ok |-> FALSE, x |-> <<RZero, RZero, RZero>>]

\* back substitution (qem.cpp:55), x[2] first
BackSubst0(M, x1, x2) ==
    [ok |-> TRUE, x |-> <<RSub(RSub(M[1][4], RMul(M[1][2], x1)), RMul(M[1][3], x2)), x1, x2>>]
BackSubst1(M, x2) == BackSubst0(M, RSub(M[2][4], RMul(M[2][3], x2)), x2)
BackSubst(M) == BackSubst1(M, M[3][4])

Solve3Round3(M) == IF Singular(M, 3) THEN NoSolution ELSE BackSubst(EliminateStep(M, 3))
Solve3Round2(M) == IF Singular(M, 2) THEN NoSolution ELSE Solve3Round3(EliminateStep(M, 2))
Solve3Round1(M) == IF Singular(M, 1) THEN NoSolution ELSE Solve3Round2(EliminateStep(M, 1))

\* A is row-major A[0..8], b is b[0..2]
solve3(A, b) ==
    Solve3Round1(<<<<A[0], A[1], A[2], b[0]>>,
                   <<A[3], A[4], A[5], b[1]>>,
                   <<A[6], A[7], A[8], b[2]>>>>)

(***************************************************************************)
(* quadric_eval (qem.cpp:60-66): v^T Q v at v = [x, y, z, 1].              *)
(***************************************************************************)
quadric_eval(Q, v) ==
    LET Qv(r) == RAdd(RAdd(RMul(Q[4 * r], v[1]), RMul(Q[4 * r + 1], v[2])),
                      RAdd(RMul(Q[4 * r + 2], v[3]), RMul(Q[4 * r + 3], v[4])))
    IN  RAdd(RAdd(RMul(v[1], Qv(0)), RMul(v[2], Qv(1))),
             RAdd(RMul(v[3], Qv(2)), RMul(v[4], Qv(3))))

\* clamp that hands its argument back unclamped
clampNone(x, lo, hi) == x
clamp(x, lo, hi) == IF RLt(x, lo) THEN lo ELSE IF RLt(hi, x) THEN hi ELSE x

(***************************************************************************)
(* The cost push_edge gives the pair (u, v) (qem.cpp:113-124).             *)
(***************************************************************************)
\* the solved point, or the midpoint of the two vertices (qem.cpp:117-122)
CollapsePoint(s, mid) == IF s.ok THEN s.x ELSE <<mid.x, mid.y, mid.z>>

CostAt(Quv, x) == quadric_eval(Quv, <<x[1], x[2], x[3], ROne>>)

CostOfMerged(Quv, mid) ==
    CostAt(Quv,
           CollapsePoint(solve3([k \in 0 .. 8 |-> Quv[4 * (k \div 3) + (k % 3)]],
                                [k \in 0 .. 2 |-> RNeg(Quv[4 * k + 3])]),
                         mid))

EdgeCost(vqS, vertsS, u, v) ==
    CostOfMerged(q_sum(At(vqS, u), At(vqS, v)), midpoint(At(vertsS, u), At(vertsS, v)))

(***************************************************************************)
(* Tri, and the set-up of qem_simplify (qem.cpp:76-128).                   *)
(***************************************************************************)
Tri(a, b, c) == [a |-> a, b |-> b, c |-> c]
Corners(f) == {f.a, f.b, f.c}

\* floor(faces0 * clamp(ratio, 0, 1)), never negative (qem.cpp:77)
Max(a, b) == IF a > b THEN a ELSE b
\* DeriveTarget with the ratio left out: a run without an absolute target
\* aims at zero faces (a variant the ratio properties must tell apart)
DeriveTargetIgnoringRatio(o, faces0) ==
    IF o.target_faces > 0 THEN o.target_faces ELSE 0

DeriveTarget(o, faces0) ==
    IF o.target_faces > 0 THEN o.target_faces
    ELSE Max(0, RFloor(RMul(RInt(faces0), clamp(o.ratio, RZero, ROne))))

\* qem.cpp:78-79
DeriveMaxCollapses(o, faces0, tgt) ==
    LET m == IF o.max_collapses > 0 THEN o.max_collapses ELSE faces0 - tgt
    IN  IF m < 0 THEN 0 ELSE m

\* L < 1e-12 for the face's cross product (qem.cpp:91-93)
ZeroArea(vertsS, f) ==
    BelowEps(len3sq(TriNormal(At(vertsS, f.a), At(vertsS, f.b), At(vertsS, f.c))))

FaceQuadric(vertsS, f) ==
    plane_quadric(TriNormal(At(vertsS, f.a), At(vertsS, f.b), At(vertsS, f.c)),
                  At(vertsS, f.a))

\* face_alive after the accumulation loop (qem.cpp:84, 93)
\* InitFaceAlive without the zero-area test: every face starts alive
AllFacesAlive(vertsS, facesS) == [i \in 1 .. Len(facesS) |-> TRUE]

InitFaceAlive(vertsS, facesS) == [i \in 1 .. Len(facesS) |-> ~ZeroArea(vertsS, facesS[i])]

\* q_add(vq[f.a], K); q_add(vq[f.b], K); q_add(vq[f.c], K) (qem.cpp:96)
AddAt(vqS, i, K) == SetAt(vqS, i, q_add(At(vqS, i), K))
AddToCorners(vqS, f, K) == AddAt(AddAt(AddAt(vqS, f.a, K), f.b, K), f.c, K)

\* the accumulation loop from face fi on (qem.cpp:85-97)
RECURSIVE AccumulateQuadrics(_, _, _, _)
AccumulateQuadrics(vertsS, facesS, fi, vqS) ==
    IF fi >= Len(facesS) THEN vqS
    ELSE IF ZeroArea(vertsS, At(facesS, fi))
         THEN AccumulateQuadrics(vertsS, facesS, fi + 1, vqS)
         ELSE AccumulateQuadrics(vertsS, facesS, fi + 1,
                 AddToCorners(vqS, At(facesS, fi), FaceQuadric(vertsS, At(facesS, fi))))

InitQuadrics(vertsS, facesS) ==
    AccumulateQuadrics(vertsS, facesS, 0, [i \in 1 .. Len(vertsS) |-> q_zero])

\* adjacency from every face of the input, dead or alive (qem.cpp:100-105)
\* BuildAdjacency from the vertex count alone: every vertex is made a
\* neighbour of every other, whatever the faces are
BuildAdjacencyAllPairs(nv, facesS) == [i \in 1 .. nv |-> (0 .. (nv - 1)) \ {i - 1}]

BuildAdjacency(nv, facesS) ==
    [i \in 1 .. nv |->
        UNION {IF f.a = i - 1 THEN {f.b, f.c} ELSE {} : f \in Range(facesS)}
        \cup UNION {IF f.b = i - 1 THEN {f.a, f.c} ELSE {} : f \in Range(facesS)}
        \cup UNION {IF f.c = i - 1 THEN {f.a, f.b} ELSE {} : f \in Range(facesS)}]

(***************************************************************************)
(* The heap: a bag of EdgeCand records; top() is an entry of least cost.   *)
(***************************************************************************)
EdgeCand(u, v, cost) == [u |-> u, v |-> v, cost |-> cost]

\* EdgeCand::operator< (qem.hpp:17): a < b iff a.cost > b.cost
CandLess(a, b) == RLt(b.cost, a.cost)

\* the entries top() may return: those no other entry is ordered above
HeapTops(h) == {e \in BagToSet(h) : \A o \in BagToSet(h) : ~CandLess(e, o)}

\* push_edge (qem.cpp:109-126): the entries it adds for the pair (u, v)
PushEdge(adjS, vqS, vertsS, u0, v0) ==
    LET u == IF u0 > v0 THEN v0 ELSE u0
        v == IF u0 > v0 THEN u0 ELSE v0
    IN  IF u0 = v0 THEN EmptyBag
        ELSE IF v \notin At(adjS, u) THEN EmptyBag
        ELSE SetToBag({EdgeCand(u, v, EdgeCost(vqS, vertsS, u, v))})

RECURSIVE BagSum(_)
BagSum(S) == IF S = {} THEN EmptyBag
             ELSE LET b == CHOOSE x \in S : TRUE IN b (+) BagSum(S \ {b})

\* heap seeding (qem.cpp:128)
SeedHeap(adjS, vqS, vertsS) ==
    BagSum({PushEdge(adjS, vqS, vertsS, p[1], p[2]) :
              p \in {q \in Idx(adjS) \X Idx(adjS) : q[2] \in At(adjS, q[1]) /\ q[1] < q[2]}})

(***************************************************************************)
(* One iteration of the collapse loop (qem.cpp:145-171), as functions of   *)
(* the state before it.                                                    *)
(***************************************************************************)

\* RewireVisited without adj[w].insert(u): u learns its new neighbours, they
\* do not learn u
RewireOneSided(adjS, u, v, P) ==
    LET step1 == [i \in 1 .. Len(adjS) |->
                    IF (i - 1) \in P /\ (i - 1) # u THEN adjS[i] \ {v} ELSE adjS[i]]
        step2 == SetAt(step1, u, At(step1, u) \cup (P \ {u}))
    IN  SetAt(step2, v, {})

\* rewire, for the neighbours P of v that the loop at qem.cpp:159 visits
RewireVisited(adjS, u, v, P) ==
    LET step1 == [i \in 1 .. Len(adjS) |->
                    LET w == i - 1
                    IN  IF w \in P /\ w # u
                        THEN (adjS[i] \ {v}) \cup {u}      \* adj[w].erase(v); adj[w].insert(u)
                        ELSE adjS[i]]
        step2 == SetAt(step1, u, At(step1, u) \cup (P \ {u}))  \* adj[u].insert(w)
    IN  SetAt(step2, v, {})                                 \* adj[v].clear()

\* qem.cpp:159-160 when v is not its own neighbour: every neighbour is visited
Rewire(adjS, u, v) == RewireVisited(adjS, u, v, At(adjS, v))

\* a corner after "if(a==v) a=u" (qem.cpp:164)
Subst(x, u, v) == IF x = v THEN u ELSE x
SubstFace(f, u, v) == Tri(Subst(f.a, u, v), Subst(f.b, u, v), Subst(f.c, u, v))
\* Degenerate with only the first of its three comparisons
DegenerateFirstPair(f) == f.a = f.b
Degenerate(f) == f.a = f.b \/ f.b = f.c \/ f.a = f.c

\* the faces the update loop marks dead (qem.cpp:163-165)
KilledFaces(facesS, aliveS, u, v) ==
    {i \in 1 .. Len(facesS) : aliveS[i] /\ Degenerate(SubstFace(facesS[i], u, v))}

\* mesh.faces after the update loop: a face that dies keeps its old corners
UpdateFaces(facesS, aliveS, u, v) ==
    [i \in 1 .. Len(facesS) |->
        IF aliveS[i] /\ ~Degenerate(SubstFace(facesS[i], u, v))
        THEN SubstFace(facesS[i], u, v) ELSE facesS[i]]

\* Reseed that pushes nothing
ReseedNothing(adjS, vqS, vertsS, u) == EmptyBag

\* refresh candidate edges around u (qem.cpp:169)
Reseed(adjS, vqS, vertsS, u) ==
    BagSum({PushEdge(adjS, vqS, vertsS, u, w) : w \in At(adjS, u)})

(***************************************************************************)
(* Compaction (qem.cpp:179-185).                                           *)
(***************************************************************************)
\* remap[i]: the number of live vertices before i, or -1 for a dead one
Remap(aliveS, i) ==
    IF At(aliveS, i) THEN Cardinality({j \in 0 .. (i - 1) : At(aliveS, j)}) ELSE -1

RECURSIVE CompactVerts(_, _, _)
CompactVerts(vertsS, aliveS, i) ==
    IF i >= Len(vertsS) THEN <<>>
    ELSE (IF At(aliveS, i) THEN <<At(vertsS, i)>> ELSE <<>>)
         \o CompactVerts(vertsS, aliveS, i + 1)

\* CompactFaces that copies the corners without the remap
RECURSIVE CompactFacesNoRemap(_, _, _, _)
CompactFacesNoRemap(facesS, faliveS, valiveS, fi) ==
    IF fi >= Len(facesS) THEN <<>>
    ELSE (IF At(faliveS, fi) THEN <<At(facesS, fi)>> ELSE <<>>)
         \o CompactFacesNoRemap(facesS, faliveS, valiveS, fi + 1)

RECURSIVE CompactFaces(_, _, _, _)
CompactFaces(facesS, faliveS, valiveS, fi) ==
    IF fi >= Len(facesS) THEN <<>>
    ELSE LET f == At(facesS, fi)
             a == Remap(valiveS, f.a)
             b == Remap(valiveS, f.b)
             c == Remap(valiveS, f.c)
         IN  (IF At(faliveS, fi) /\ ~(a < 0 \/ b < 0 \/ c < 0) THEN <<Tri(a, b, c)>> ELSE <<>>)
             \o CompactFaces(facesS, faliveS, valiveS, fi + 1)

(***************************************************************************)
(* The inputs the model is checked on.                                     *)
(***************************************************************************)
MaxFaces == 2

P3(x, y, z) == Vec3(RInt(x), RInt(y), RInt(z))

\* vertex layouts of the small meshes: no vertex at all, a proper triangle,
\* and three vertices of which the first two share one position
Layouts ==
    { <<>>,
      <<P3(0, 0, 0), P3(1, 0, 0), P3(0, 1, 0)>>,
      <<P3(0, 0, 0), P3(0, 0, 0), P3(0, 1, 0)>> }

\* the faces of a small mesh: every triple of valid indices, written from a
\* least corner on (a rotation of the corners leaves the plane, the
\* adjacency and the degeneracy of a face as they are)
TriplesOver(n) ==
    {Tri(a, b, c) : a \in 0 .. (n - 1), b \in 0 .. (n - 1), c \in 0 .. (n - 1)}
SmallFaces(n) == {f \in TriplesOver(n) : f.a <= f.b /\ f.a <= f.c}

\* the unit cube: 8 vertices, 12 triangles, closed
CubeVerts ==
    <<P3(0, 0, 0), P3(1, 0, 0), P3(1, 1, 0), P3(0, 1, 0),
      P3(0, 0, 1), P3(1, 0, 1), P3(1, 1, 1), P3(0, 1, 1)>>
\* its six sides, each as the cycle of its corners seen from outside
CubeQuads ==
    <<<<0, 3, 2, 1>>, <<4, 5, 6, 7>>, <<0, 1, 5, 4>>,
      <<3, 7, 6, 2>>, <<0, 4, 7, 3>>, <<1, 2, 6, 5>>>>
\* the two triangles of a side, cut along one diagonal or the other
QuadFaces(q, alt) ==
    IF alt THEN <<Tri(q[1], q[2], q[4]), Tri(q[2], q[3], q[4])>>
    ELSE <<Tri(q[1], q[2], q[3]), Tri(q[1], q[3], q[4])>>
\* the cube with every side cut the same way
CubeFaces(alt) ==
    QuadFaces(CubeQuads[1], alt) \o QuadFaces(CubeQuads[2], alt)
    \o QuadFaces(CubeQuads[3], alt) \o QuadFaces(CubeQuads[4], alt)
    \o QuadFaces(CubeQuads[5], alt) \o QuadFaces(CubeQuads[6], alt)
CubeMesh(alt) == [verts |-> CubeVerts, faces |-> CubeFaces(alt)]

\* two triangles that share no vertex
TwoTrianglesMesh ==
    [verts |-> <<P3(0, 0, 0), P3(1, 0, 0), P3(0, 1, 0), P3(0, 0, 1), P3(1, 0, 1), P3(0, 1, 1)>>,
     faces |-> <<Tri(0, 1, 2), Tri(3, 4, 5)>>]

\* SimplifyOptions (qem.hpp:21-27); progress_interval only paces a stderr line
Opt(r, t, m, tl) == [ratio |-> r, target_faces |-> t, max_collapses |-> m, time_limit |-> tl]
DefaultOptions == Opt(<<1, 2>>, -1, -1, -1)
Options ==
    {DefaultOptions, Opt(<<1, 1>>, -1, -1, -1), Opt(<<1, 2>>, 0, 1, -1),
     Opt(<<1, 2>>, -1, 1, -1), Opt(<<0, 1>>, -1, 1, -1), Opt(<<3, 2>>, -1, 1, -1),
     Opt(<<1, 1>>, 1, 1, -1), Opt(<<1, 2>>, -1, 1, 1), Opt(<<-1, 2>>, -1, 1, -1)}
\* the options the runs with attributes are made under
UvOptions == {Opt(<<1, 2>>, -1, 1, -1)}
CubeOptions == {DefaultOptions, Opt(<<1, 2>>, 11, -1, -1), Opt(<<1, 1>>, -1, -1, -1)}
TwoTrianglesOptions == {Opt(r, -1, -1, tl) : r \in {<<0, 1>>, <<1, 2>>}, tl \in {-1, 1}}

\* the attribute triplet supplied for face i is the opaque value <<"uv", i>>
UvFor(facesS) == [i \in 1 .. Len(facesS) |-> <<"uv", i - 1>>]

(***************************************************************************)
(* The text the command-line tool reads: arguments and OBJ lines are       *)
(* sequences of tokens, and a token is spelt as a sequence of characters.  *)
(***************************************************************************)
\* the spelling of every token that occurs in the arguments and files below;
\* "" is the token read from an exhausted line
Spelling ==
    "" :> <<>> @@ "0" :> <<"0">> @@ "1" :> <<"1">> @@ "2" :> <<"2">> @@ "3" :> <<"3">>
    @@ "4" :> <<"4">> @@ "0.5" :> <<"0", ".", "5">> @@ "1x" :> <<"1", "x">>
    @@ "x" :> <<"x">> @@ "abc" :> <<"a", "b", "c">> @@ "-1" :> <<"-", "1">>
    @@ "1/1" :> <<"1", "/", "1">> @@ "2/2" :> <<"2", "/", "2">>
    @@ "3/3/3" :> <<"3", "/", "3", "/", "3">> @@ "#" :> <<"#">>
    @@ "v" :> <<"v">> @@ "f" :> <<"f">> @@ "vt" :> <<"v", "t">>
Chars(tok) == Spelling[tok]

Digits ==
    "0" :> 0 @@ "1" :> 1 @@ "2" :> 2 @@ "3" :> 3 @@ "4" :> 4
    @@ "5" :> 5 @@ "6" :> 6 @@ "7" :> 7 @@ "8" :> 8 @@ "9" :> 9
IsDigit(c) == c \in DOMAIN Digits

\* the longest run of digits a character sequence starts with
RECURSIVE DigitRun(_)
DigitRun(cs) ==
    IF cs = <<>> \/ ~IsDigit(Head(cs)) THEN <<>> ELSE <<Head(cs)>> \o DigitRun(Tail(cs))

RECURSIVE Decimal(_, _)
Decimal(cs, acc) == IF cs = <<>> THEN acc ELSE Decimal(Tail(cs), 10 * acc + Digits[Head(cs)])

RECURSIVE Pow10(_)
Pow10(n) == IF n = 0 THEN 1 ELSE 10 * Pow10(n - 1)

Signed(cs) == cs # <<>> /\ Head(cs) \in {"-", "+"}
Unsigned(cs) == IF Signed(cs) THEN Tail(cs) ELSE cs
SignOf(cs) == IF cs # <<>> /\ Head(cs) = "-" THEN -1 ELSE 1

\* the outcome of a conversion: a value, or std::invalid_argument thrown
Converted(x) == [ok |-> TRUE, val |-> x]
Thrown(x) == [ok |-> FALSE, val |-> x]

\* std::stoi: an optional sign and the leading digits; what follows the digits
\* is ignored, and a text without leading digits throws
stoi(cs) ==
    LET ds == DigitRun(Unsigned(cs))
    IN  IF ds = <<>> THEN Thrown(0) ELSE Converted(SignOf(cs) * Decimal(ds, 0))

\* std::stod on decimal texts: sign, digits, optionally a point and digits
stod(cs) ==
    LET body == Unsigned(cs)
        ip == DigitRun(body)
        rest == SubSeq(body, Len(ip) + 1, Len(body))
        fp == IF rest # <<>> /\ Head(rest) = "." THEN DigitRun(Tail(rest)) ELSE <<>>
    IN  IF ip = <<>> /\ fp = <<>> THEN Thrown(RZero)
        ELSE Converted(Rat(SignOf(cs) * (Decimal(ip, 0) * Pow10(Len(fp)) + Decimal(fp, 0)),
                           Pow10(Len(fp))))

\* s.find('/'): the position of the first '/', counted from 0, or npos (-1)
RECURSIVE Find(_, _, _)
Find(cs, c, from) ==
    IF from >= Len(cs) THEN -1 ELSE IF At(cs, from) = c THEN from ELSE Find(cs, c, from + 1)

\* io_obj.cpp:32-38: the first '/'-separated field of a face token, as an int
parse_idx(cs) ==
    LET p == Find(cs, "/", 0)
        a == IF p = -1 THEN cs ELSE SubSeq(cs, 1, p)
    IN  stoi(a)

\* the n-th token of a line, the empty string once the line is exhausted
TokAt(line, n) == IF n <= Len(line) THEN line[n] ELSE ""

\* io_obj.cpp:28: iss >> v.x >> v.y >> v.z on a value-initialised Vec3; a
\* failed extraction stores 0 and every later one leaves its member at 0
ReadVec3(line) ==
    LET x == stod(Chars(TokAt(line, 2)))
        y == stod(Chars(TokAt(line, 3)))
        z == stod(Chars(TokAt(line, 4)))
    IN  Vec3(IF x.ok THEN x.val ELSE RZero,
             IF x.ok /\ y.ok THEN y.val ELSE RZero,
             IF x.ok /\ y.ok /\ z.ok THEN z.val ELSE RZero)

\* the outcome of load_obj_tri: "ok", "fail" (false returned) or "throw"
Loaded(s, vs, fs) == [status |-> s, verts |-> vs, faces |-> fs]

\* io_obj.cpp:21-47: the lines in order, then the check for an empty mesh
RECURSIVE ReadLines(_, _, _)
ReadLines(lines, vs, fs) ==
    IF lines = <<>>
    THEN IF vs = <<>> \/ fs = <<>> THEN Loaded("fail", vs, fs) ELSE Loaded("ok", vs, fs)
    ELSE LET line == Head(lines)
             tok == TokAt(line, 1)
         IN  IF line = <<>> \/ Head(Chars(tok)) = "#" THEN ReadLines(Tail(lines), vs, fs)
             ELSE IF tok = "v" THEN ReadLines(Tail(lines), Append(vs, ReadVec3(line)), fs)
             ELSE IF tok = "f"
             THEN LET i == parse_idx(Chars(TokAt(line, 2)))
                      j == parse_idx(Chars(TokAt(line, 3)))
                      k == parse_idx(Chars(TokAt(line, 4)))
                  IN  IF i.ok /\ j.ok /\ k.ok
                      THEN ReadLines(Tail(lines), vs,
                                     Append(fs, Tri(i.val - 1, j.val - 1, k.val - 1)))
                      ELSE Loaded("throw", vs, fs)
             ELSE ReadLines(Tail(lines), vs, fs)

\* a file of the file system: absent, or its lines
NoFile == [exists |-> FALSE, lines |-> <<>>]
File(lines) == [exists |-> TRUE, lines |-> lines]

\* io_obj.cpp:16-48
load_obj_tri(file) ==
    IF ~file.exists THEN Loaded("fail", <<>>, <<>>) ELSE ReadLines(file.lines, <<>>, <<>>)

\* every index of every face references a vertex of the mesh
IndicesValid(vs, fs) ==
    \A n \in 1 .. Len(fs) : Corners(fs[n]) \subseteq 0 .. (Len(vs) - 1)

\* main.cpp:20-32: the paths and options after the argument loop, with
\* status "ok", "usage" (return 2) or "throw" (std::stod / std::stoi threw)
Parsed(s, i, o, op) == [status |-> s, in_path |-> i, out_path |-> o, opt |-> op]

RECURSIVE ParseArgs(_, _, _)
ParseArgs(argv, i, st) ==
    IF i > Len(argv)
    THEN IF st.in_path = "" \/ st.out_path = "" THEN [st EXCEPT !.status = "usage"] ELSE st
    ELSE IF i + 1 > Len(argv) THEN [st EXCEPT !.status = "usage"]
    ELSE LET flag == argv[i]
             val == argv[i + 1]
             d == stod(Chars(val))
             n == stoi(Chars(val))
         IN  IF flag = "--in" THEN ParseArgs(argv, i + 2, [st EXCEPT !.in_path = val])
             ELSE IF flag = "--out" THEN ParseArgs(argv, i + 2, [st EXCEPT !.out_path = val])
             ELSE IF flag = "--ratio"
             THEN IF d.ok THEN ParseArgs(argv, i + 2, [st EXCEPT !.opt.ratio = d.val])
                  ELSE [st EXCEPT !.status = "throw"]
             ELSE IF flag = "--target-faces"
             THEN IF n.ok THEN ParseArgs(argv, i + 2, [st EXCEPT !.opt.target_faces = n.val])
                  ELSE [st EXCEPT !.status = "throw"]
             ELSE IF flag = "--max-collapses"
             THEN IF n.ok THEN ParseArgs(argv, i + 2, [st EXCEPT !.opt.max_collapses = n.val])
                  ELSE [st EXCEPT !.status = "throw"]
             ELSE IF flag = "--time-limit"
             THEN IF d.ok THEN ParseArgs(argv, i + 2, [st EXCEPT !.opt.time_limit = d.val[1]])
                  ELSE [st EXCEPT !.status = "throw"]
             ELSE IF flag = "--progress-interval"
             THEN IF n.ok THEN ParseArgs(argv, i + 2, st) ELSE [st EXCEPT !.status = "throw"]
             ELSE [st EXCEPT !.status = "usage"]

\* a Python argument or return value: None, or a list
PyNone == [none |-> TRUE, list |-> <<>>]
PyList(l) == [none |-> FALSE, list |-> l]

\* main.cpp:21: the options before the argument loop
MainOptions == Opt(<<1, 2>>, -1, -1, -1)

\* the calls made through the Python binding: small meshes, with face_uvs
\* None, a list with one entry per face, one entry short, and one entry long
BindingMeshes ==
    {[verts |-> l, faces |-> fs] :
        l \in Layouts \ {<<>>},
        fs \in {<<Tri(0, 1, 2)>>, <<Tri(0, 1, 2), Tri(0, 2, 1)>>, <<Tri(0, 1, 2), Tri(0, 0, 1)>>}}
BindingUvs(fs) ==
    {PyNone, PyList(UvFor(fs)), PyList(Tail(UvFor(fs))), PyList(UvFor(Append(fs, Tri(0, 0, 0))))}
BindingOptions == {Opt(<<1, 1>>, -1, -1, -1), Opt(<<1, 2>>, -1, 1, -1)}

\* the OBJ files the command-line tool is run on
VertexLines == << <<"v", "0", "0", "0">>, <<"v", "1", "0", "0">>, <<"v", "0", "1", "0">> >>
ObjFiles ==
    { File(<< <<"#">> >> \o VertexLines \o << <<"vt", "0", "0">>, <<>>, <<"f", "1", "2", "3">> >>),
      File(VertexLines \o << <<"f", "1/1", "2/2", "3/3/3">> >>),
      File(VertexLines \o << <<"f", "1", "2", "3">>, <<"f", "1", "3", "2">> >>),
      File(VertexLines \o << <<"f", "1", "2", "4">> >>),
      File(VertexLines \o << <<"f", "1", "2", "0">> >>),
      File(VertexLines \o << <<"f", "1", "2", "x">> >>),
      File(VertexLines \o << <<"f", "1", "2">> >>),
      File(<< <<"v", "0", "0", "0">>, <<"v", "1", "0", "0">>, <<"v", "x", "1", "1">>,
              <<"f", "1", "2", "3">> >>),
      File(VertexLines),
      File(<< <<"f", "1", "2", "3">> >>),
      File(<<>>) }

\* the argument vectors, argv[1] onwards
InOut == <<"--in", "in.obj", "--out", "out.obj">>
ArgVectors ==
    { InOut,
      InOut \o <<"--ratio", "1">>,
      InOut \o <<"--ratio", "0.5", "--max-collapses", "1">>,
      InOut \o <<"--target-faces", "1", "--progress-interval", "4">>,
      InOut \o <<"--target-faces", "1x", "--time-limit", "1">>,
      InOut \o <<"--ratio", "abc">>,
      InOut \o <<"--max-collapses", "x">>,
      InOut \o <<"--bogus", "1">>,
      InOut \o <<"--ratio">>,
      <<"--ratio", "abc">>,
      <<"--in", "in.obj">>,
      <<>>,
      <<"--in", "missing.obj", "--out", "out.obj">>,
      <<"--in", "in.obj", "--out", "/nodir/out.obj">> }

\* the file system: in.obj is the file of the run, out.obj can be written,
\* nothing else exists and no other path can be written
Writable(path) == path = "out.obj"

VARIABLES
    pc,             \* where the run is: start, loop, compact, done, crashed
    input,          \* the mesh as the caller supplied it
    opt,            \* SimplifyOptions
    mesh,           \* Mesh& mesh: verts, faces, face_uvs
    rep,            \* SimplifyReport& rep
    ret,            \* the value returned: "none" until the return
    target,         \* int target
    max_collapses,  \* int max_collapses
    vq,             \* std::vector<Quadric> vq
    face_alive,     \* std::vector<char> face_alive
    v_alive,        \* std::vector<char> v_alive
    adj,            \* std::vector<std::unordered_set<int>> adj
    heap,           \* std::priority_queue<EdgeCand> heap
    faces_cur,      \* int faces_cur
    collapsed,      \* int collapsed
    stop,           \* which exit the loop took: none, guard, time
    call,           \* what the run was called with: by whom, and the arguments
    caller          \* the calling frame: paths, stages started, how it ended, results

vars == <<pc, input, opt, mesh, rep, ret, target, max_collapses, vq, face_alive,
          v_alive, adj, heap, faces_cur, collapsed, stop, call, caller>>

locals == <<target, max_collapses, vq, face_alive, v_alive, adj, heap, faces_cur, collapsed>>

\* what a run is called with: the caller ("core": qem_simplify called directly,
\* "binding": simplify_with_uv, "cli": main) and its arguments
Call(k, m, uvs, o, argv, file) ==
    [kind |-> k, verts |-> m.verts, faces |-> m.faces, face_uvs |-> uvs, o |-> o,
     argv |-> argv, file |-> file]
EmptyMesh == [verts |-> <<>>, faces |-> <<>>]

\* the calling frame before it has done anything
NewCaller ==
    [in_path |-> "", out_path |-> "", stages |-> <<>>, term |-> "running", code |-> -1,
     summary |-> <<>>, written |-> <<>>,
     returned |-> [verts |-> <<>>, faces |-> <<>>, uvs |-> PyNone]]

\* the locals of qem_simplify and its report before the call
Fresh ==
    /\ rep = [faces_before |-> 0, faces_after |-> 0, verts_before |-> 0, verts_after |-> 0]
    /\ ret = "none"
    /\ target = 0 /\ max_collapses = 0
    /\ vq = <<>> /\ face_alive = <<>> /\ v_alive = <<>> /\ adj = <<>>
    /\ heap = EmptyBag
    /\ faces_cur = 0 /\ collapsed = 0
    /\ stop = "none"

\* a run on the mesh m with the options o, with or without attributes
Start(m, o, withUv) ==
    /\ input = [verts |-> m.verts, faces |-> m.faces,
                face_uvs |-> IF withUv THEN UvFor(m.faces) ELSE <<>>]
    /\ opt = o
    /\ mesh = input
    /\ pc = "start"
    /\ call = Call("core", EmptyMesh, PyNone, o, <<>>, NoFile)
    /\ caller = NewCaller
    /\ Fresh

\* a call that has yet to build its mesh and options: the structs hold
\* their defaults (mesh.hpp:34-42, qem.hpp:21-27)
StartCaller(at, c) ==
    /\ input = [verts |-> <<>>, faces |-> <<>>, face_uvs |-> <<>>]
    /\ opt = DefaultOptions
    /\ mesh = input
    /\ pc = at
    /\ call = c
    /\ caller = NewCaller
    /\ Fresh

Init ==
    \/ \E l \in Layouts, nf \in 0 .. MaxFaces, withUv \in BOOLEAN :
         \E fs \in [1 .. nf -> SmallFaces(Len(l))] :
            \E o \in IF withUv THEN UvOptions ELSE Options :
               Start([verts |-> l, faces |-> fs], o, withUv)
    \/ \E alt \in BOOLEAN, o \in CubeOptions, withUv \in BOOLEAN :
         Start(CubeMesh(alt), o, withUv)
    \/ \E o \in TwoTrianglesOptions, withUv \in BOOLEAN : Start(TwoTrianglesMesh, o, withUv)
    \/ \E m \in BindingMeshes, o \in BindingOptions :
         \E uvs \in BindingUvs(m.faces) :
            StartCaller("py_call", Call("binding", m, uvs, o, <<>>, NoFile))
    \/ \E argv \in ArgVectors, file \in ObjFiles :
         StartCaller("cli_args", Call("cli", EmptyMesh, PyNone, DefaultOptions, argv, file))

\* EarlyReturn without the assignment to rep.verts_after
EarlyReturnWithoutVertsAfter ==
    /\ pc = "start"
    /\ Len(mesh.faces) = 0
    /\ rep' = [rep EXCEPT !.faces_before = Len(mesh.faces), !.verts_before = Len(mesh.verts),
                          !.faces_after = 0]
    /\ ret' = TRUE
    /\ pc' = "done"
    /\ UNCHANGED <<call, caller, input, opt, mesh, locals, stop>>

\* qem.cpp:71-73: nothing to do on a mesh without faces
EarlyReturn ==
    /\ pc = "start"
    /\ Len(mesh.faces) = 0
    /\ rep' = [faces_before |-> Len(mesh.faces), verts_before |-> Len(mesh.verts),
               faces_after |-> 0, verts_after |-> Len(mesh.verts)]
    /\ ret' = TRUE
    /\ pc' = "done"
    /\ UNCHANGED <<call, caller, input, opt, mesh, locals, stop>>

\* qem.cpp:71-136: the report's "before" counts, the targets, the quadrics,
\* the adjacency, the seeded heap and the counters
Setup ==
    /\ pc = "start"
    /\ Len(mesh.faces) # 0
    /\ LET faces0 == Len(mesh.faces)
           tgt == DeriveTarget(opt, faces0)
           q == InitQuadrics(mesh.verts, mesh.faces)
           a == BuildAdjacency(Len(mesh.verts), mesh.faces)
       IN  /\ rep' = [rep EXCEPT !.faces_before = faces0, !.verts_before = Len(mesh.verts)]
           /\ target' = tgt
           /\ max_collapses' = DeriveMaxCollapses(opt, faces0, tgt)
           /\ vq' = q
           /\ face_alive' = InitFaceAlive(mesh.verts, mesh.faces)
           /\ adj' = a
           /\ heap' = SeedHeap(a, q, mesh.verts)
           /\ collapsed' = 0
           /\ faces_cur' = faces0
           /\ v_alive' = [i \in 1 .. Len(mesh.verts) |-> TRUE]
    /\ pc' = "loop"
    /\ UNCHANGED <<call, caller, input, opt, mesh, ret, stop>>

\* LoopGuard without the comparison of faces_cur with target
GuardWithoutTarget == heap # EmptyBag /\ collapsed < max_collapses

\* LoopGuard without the test of the collapse counter
GuardWithoutCap == faces_cur > target /\ heap # EmptyBag

\* the while condition (qem.cpp:138)
LoopGuard == faces_cur > target /\ heap # EmptyBag /\ collapsed < max_collapses

\* the condition fails: the loop is left
LoopExit ==
    /\ pc = "loop"
    /\ ~LoopGuard
    /\ pc' = "compact"
    /\ stop' = "guard"
    /\ UNCHANGED <<call, caller, input, opt, mesh, rep, ret, locals>>

\* TimeBreak without the test of opt.time_limit
TimeBreakAnyLimit ==
    /\ pc = "loop"
    /\ LoopGuard
    /\ pc' = "compact"
    /\ stop' = "time"
    /\ UNCHANGED <<call, caller, input, opt, mesh, rep, ret, locals>>

\* qem.cpp:140-143: the clock has reached the limit (the clock is not modelled:
\* any check made with a positive limit may be the one that sees it reached)
TimeBreak ==
    /\ pc = "loop"
    /\ LoopGuard
    /\ opt.time_limit > 0
    /\ pc' = "compact"
    /\ stop' = "time"
    /\ UNCHANGED <<call, caller, input, opt, mesh, rep, ret, locals>>

\* Stale without the two liveness tests
StaleByAdjacencyOnly(e) == e.v \notin At(adj, e.u)

\* the staleness test of a popped entry (qem.cpp:146)
Stale(e) == ~At(v_alive, e.u) \/ ~At(v_alive, e.v) \/ e.v \notin At(adj, e.u)

\* qem.cpp:145-146: a stale entry is popped and dropped
PopStale ==
    /\ pc = "loop"
    /\ LoopGuard
    /\ \E e \in HeapTops(heap) :
         /\ Stale(e)
         /\ heap' = heap (-) SetToBag({e})
    /\ UNCHANGED <<pc, call, caller, input, opt, mesh, rep, ret, target, max_collapses, vq, face_alive,
                   v_alive, adj, faces_cur, collapsed, stop>>

\* qem.cpp:145-171 for a popped entry e that passes the staleness test, the
\* loop at qem.cpp:159 having visited the neighbours P of e.v
CollapseEdge(e, P) ==
    LET u == e.u
        v == e.v
        verts1 == SetAt(mesh.verts, u, midpoint(At(mesh.verts, u), At(mesh.verts, v)))
        vq1 == SetAt(vq, u, q_add(At(vq, u), At(vq, v)))
        adj1 == RewireVisited(adj, u, v, P)
        killed == KilledFaces(mesh.faces, face_alive, u, v)
    IN  /\ mesh' = [mesh EXCEPT !.verts = verts1,
                                !.faces = UpdateFaces(mesh.faces, face_alive, u, v)]
        /\ vq' = vq1
        /\ adj' = adj1
        /\ v_alive' = SetAt(v_alive, v, FALSE)
        /\ face_alive' = [i \in 1 .. Len(face_alive) |-> face_alive[i] /\ i \notin killed]
        /\ faces_cur' = faces_cur - Cardinality(killed)
        /\ heap' = (heap (-) SetToBag({e})) (+) Reseed(adj1, vq1, verts1, u)
        /\ collapsed' = collapsed + 1

\* an iteration that collapses e.v into e.u
Collapse ==
    /\ pc = "loop"
    /\ LoopGuard
    /\ \E e \in HeapTops(heap) :
         /\ ~Stale(e)
         /\ e.v \notin At(adj, e.v)
         /\ CollapseEdge(e, At(adj, e.v))
    /\ UNCHANGED <<pc, call, caller, input, opt, rep, ret, target, max_collapses, stop>>

\* The same iteration when e.v is its own neighbour (a face with a repeated
\* index put it there, qem.cpp:102-104).  The range-for at qem.cpp:159 then
\* erases from adj[v] the element its iterator stands on and advances the
\* dead iterator: undefined behaviour.  The outcomes kept: the loop goes on
\* to visit any of the other neighbours, or the process dies.
CollapseSelfLoop ==
    /\ pc = "loop"
    /\ LoopGuard
    /\ \E e \in HeapTops(heap) :
         /\ ~Stale(e)
         /\ e.v \in At(adj, e.v)
         /\ \/ /\ \E P \in SUBSET (At(adj, e.v) \ {e.u}) :
                    /\ e.v \in P
                    /\ CollapseEdge(e, P)
               /\ UNCHANGED <<pc, call, caller, input, opt, rep, ret, target, max_collapses, stop>>
            \/ /\ pc' = "crashed"
               /\ UNCHANGED <<call, caller, input, opt, mesh, rep, ret, locals, stop>>

\* Compact with the report taken from the loop's counters instead of the
\* sizes of the compacted arrays
CompactReportingCounter ==
    /\ pc = "compact"
    /\ mesh' = [mesh EXCEPT !.verts = CompactVerts(mesh.verts, v_alive, 0),
                            !.faces = CompactFaces(mesh.faces, face_alive, v_alive, 0)]
    /\ rep' = [rep EXCEPT !.faces_after = faces_cur,
                          !.verts_after = Len(mesh.verts) - collapsed]
    /\ ret' = TRUE
    /\ pc' = "done"
    /\ UNCHANGED <<call, caller, input, opt, locals, stop>>

\* qem.cpp:179-189: compaction, the report and the return
Compact ==
    /\ pc = "compact"
    /\ LET v2 == CompactVerts(mesh.verts, v_alive, 0)
           f2 == CompactFaces(mesh.faces, face_alive, v_alive, 0)
       IN  /\ mesh' = [mesh EXCEPT !.verts = v2, !.faces = f2]
           /\ rep' = [rep EXCEPT !.faces_after = Len(f2), !.verts_after = Len(v2)]
    /\ ret' = TRUE
    /\ pc' = "done"
    /\ UNCHANGED <<call, caller, input, opt, locals, stop>>

\* python_bindings.cpp:57-92: the arguments copied into a Mesh, face_uvs taken
\* over only when it is a list with one entry per face, and the options
BindingCall ==
    /\ pc = "py_call"
    /\ mesh' = [verts |-> call.verts, faces |-> call.faces,
                face_uvs |-> IF ~call.face_uvs.none /\ Len(call.face_uvs.list) = Len(call.faces)
                             THEN call.face_uvs.list ELSE <<>>]
    /\ input' = mesh'
    /\ opt' = call.o
    /\ pc' = "start"
    /\ UNCHANGED <<call, caller, rep, ret, locals, stop>>

\* BindingReturn without the comparison of the two sizes
BindingReturnAnyUvs ==
    /\ pc = "done" /\ call.kind = "binding"
    /\ caller' = [caller EXCEPT !.returned =
                    [verts |-> mesh.verts, faces |-> mesh.faces,
                     uvs |-> IF mesh.face_uvs # <<>> THEN PyList(mesh.face_uvs) ELSE PyNone]]
    /\ pc' = "py_returned"
    /\ UNCHANGED <<call, input, opt, mesh, rep, ret, locals, stop>>

\* python_bindings.cpp:107-130: the tuple handed back to Python
BindingReturn ==
    /\ pc = "done" /\ call.kind = "binding"
    /\ caller' = [caller EXCEPT !.returned =
                    [verts |-> mesh.verts, faces |-> mesh.faces,
                     uvs |-> IF mesh.face_uvs # <<>> /\ Len(mesh.face_uvs) = Len(mesh.faces)
                             THEN PyList(mesh.face_uvs) ELSE PyNone]]
    /\ pc' = "py_returned"
    /\ UNCHANGED <<call, input, opt, mesh, rep, ret, locals, stop>>

\* the process ends: return n from main, or std::terminate ("abort")
Exit(c, n) == [c EXCEPT !.term = "exit", !.code = n]
Abort(c) == [c EXCEPT !.term = "abort"]

\* main.cpp:20-32: the argument loop and the check of the two paths
CliArgs ==
    /\ pc = "cli_args"
    /\ LET p == ParseArgs(call.argv, 1, Parsed("ok", "", "", MainOptions))
       IN  \/ /\ p.status = "ok"
              /\ opt' = p.opt
              /\ caller' = [caller EXCEPT !.in_path = p.in_path, !.out_path = p.out_path]
              /\ pc' = "cli_load"
           \/ /\ p.status = "usage"
              /\ caller' = Exit(caller, 2)
              /\ pc' = "exited"
              /\ UNCHANGED opt
           \/ /\ p.status = "throw"
              /\ caller' = Abort(caller)
              /\ pc' = "exited"
              /\ UNCHANGED opt
    /\ UNCHANGED <<call, input, mesh, rep, ret, locals, stop>>

\* main.cpp:34-38: load_obj_tri, and on success the call of qem_simplify; an
\* index outside the vertex array makes that call undefined
CliLoad ==
    /\ pc = "cli_load"
    /\ LET r == load_obj_tri(IF caller.in_path = "in.obj" THEN call.file ELSE NoFile)
       IN  \/ /\ r.status = "ok"
              /\ mesh' = [verts |-> r.verts, faces |-> r.faces, face_uvs |-> <<>>]
              /\ input' = mesh'
              /\ caller' = [caller EXCEPT !.stages = <<"load", "simplify">>]
              /\ pc' = IF IndicesValid(r.verts, r.faces) THEN "start" ELSE "undefined"
           \/ /\ r.status = "fail"
              /\ caller' = Exit([caller EXCEPT !.stages = <<"load">>], 3)
              /\ pc' = "exited"
              /\ UNCHANGED <<input, mesh>>
           \/ /\ r.status = "throw"
              /\ caller' = Abort([caller EXCEPT !.stages = <<"load">>])
              /\ pc' = "exited"
              /\ UNCHANGED <<input, mesh>>
    /\ UNCHANGED <<call, opt, rep, ret, locals, stop>>

\* qem.cpp:82-97 on a face whose index is outside mesh.verts: the reads of
\* mesh.verts[f.a] and the writes of vq[f.a] are out of bounds.  The run
\* crashes, or returns with whatever the stray accesses left behind
SimplifyOutOfBounds ==
    /\ pc = "undefined"
    /\ \/ /\ pc' = "crashed"
          /\ UNCHANGED <<rep, ret>>
       \/ /\ \E fa \in 0 .. Len(mesh.faces) :
                rep' = [faces_before |-> Len(mesh.faces), faces_after |-> fa,
                        verts_before |-> Len(mesh.verts), verts_after |-> Len(mesh.verts)]
          /\ ret' = TRUE
          /\ pc' = "returned_undefined"
    /\ UNCHANGED <<call, caller, input, opt, mesh, locals, stop>>

\* main.cpp:38-44: the test of the value qem_simplify returned, save_obj_tri
\* (io_obj.cpp:50-63; it fails when the path cannot be opened for writing),
\* and the summary
CliSave ==
    /\ pc \in {"done", "returned_undefined"} /\ call.kind = "cli"
    /\ caller' =
          IF ret = FALSE THEN Exit(caller, 4)
          ELSE IF ~Writable(caller.out_path)
          THEN Exit([caller EXCEPT !.stages = Append(@, "save")], 5)
          ELSE Exit([caller EXCEPT !.stages = Append(@, "save"),
                                   !.written = <<[verts |-> mesh.verts, faces |-> mesh.faces]>>,
                                   !.summary = <<rep>>], 0)
    /\ pc' = "exited"
    /\ UNCHANGED <<call, input, opt, mesh, rep, ret, locals, stop>>

Next ==
    \/ EarlyReturn
    \/ Setup
    \/ LoopExit
    \/ TimeBreak
    \/ PopStale
    \/ Collapse
    \/ CollapseSelfLoop
    \/ Compact
    \/ BindingCall
    \/ BindingReturn
    \/ CliArgs
    \/ CliLoad
    \/ SimplifyOutOfBounds
    \/ CliSave

Spec == Init /\ [][Next]_vars

(***************************************************************************)
(* Properties.                                                             *)
(***************************************************************************)
\* the run has returned
Returned == pc = "done"

\* the zero-area triangles of a mesh as the caller supplied it
ZeroAreaFaces(m) == {i \in 1 .. Len(m.faces) : ZeroArea(m.verts, m.faces[i])}
ZeroAreaCount(m) == Cardinality(ZeroAreaFaces(m))

\* the run was made with the time limit disabled and the default collapse cap
UnlimitedRun == opt.time_limit <= 0 /\ opt.max_collapses <= 0

\* C1: in the mesh qem_simplify returns, whatever ended the loop, every
\* triangle has three pairwise-distinct corner indices, each in [0, vertsAfter).
C1_OutputTrianglesValid ==
    Returned =>
        \A i \in 1 .. Len(mesh.faces) :
            /\ mesh.faces[i].a # mesh.faces[i].b
            /\ mesh.faces[i].b # mesh.faces[i].c
            /\ mesh.faces[i].a # mesh.faces[i].c
            /\ Corners(mesh.faces[i]) \subseteq 0 .. (rep.verts_after - 1)

\* a run that collapsed at least one edge and still returned triangles
C1_Witness == Returned /\ collapsed > 0 /\ Len(mesh.faces) > 0

\* C2: the returned report has facesAfter <= facesBefore and
\* vertsAfter <= vertsBefore, and facesAfter and vertsAfter are the sizes of
\* the returned face and vertex arrays.
C2_ReportCounts ==
    Returned =>
        /\ rep.faces_after <= rep.faces_before
        /\ rep.verts_after <= rep.verts_before
        /\ rep.faces_after = Len(mesh.faces)
        /\ rep.verts_after = Len(mesh.verts)
        /\ rep.faces_before = Len(input.faces)
        /\ rep.verts_before = Len(input.verts)

\* a run that removed triangles and vertices, with a zero-area triangle in
\* the input (the loop's counter and the face array then disagree)
C2_Witness ==
    /\ Returned
    /\ rep.faces_after < rep.faces_before
    /\ rep.verts_after < rep.verts_before
    /\ ZeroAreaCount(input) > 0

\* C3 as stated: with the time limit disabled and the default collapse cap,
\* the reported facesAfter equals the derived target exactly (stated here for
\* inputs without zero-area triangles only, which is enough to refute it).
C3_FacesAfterEqualsTarget ==
    (Returned /\ Len(input.faces) > 0 /\ UnlimitedRun /\ ZeroAreaCount(input) = 0)
        => rep.faces_after = target

\* C3 as it holds: with the time limit disabled and the default collapse cap,
\* facesAfter is the loop's live-face counter less the zero-area input
\* triangles, and the loop leaves the counter above the target only when the
\* heap ran empty or the cap was used up; facesAfter may be below the target.
C3_FacesAfterFromCounter ==
    (Returned /\ Len(input.faces) > 0 /\ UnlimitedRun) =>
        /\ rep.faces_after = faces_cur - ZeroAreaCount(input)
        /\ (faces_cur > target => (heap = EmptyBag \/ collapsed >= max_collapses))

\* a run without zero-area input triangles whose last collapse took the
\* face count from above the target to below it
C3_Witness ==
    /\ Returned /\ UnlimitedRun
    /\ ZeroAreaCount(input) = 0
    /\ collapsed > 0
    /\ rep.faces_after < target

\* the input triangles that are still alive, in their input order
KeptFaces == SelectSeq([i \in 1 .. Len(face_alive) |-> i], LAMBDA i : face_alive[i])

\* C4 as stated: when face_uvs is supplied with one entry per input triangle,
\* qem_simplify returns it with exactly facesAfter entries, entry i being the
\* attribute triplet of the input triangle that became output triangle i.
C4_UvsFilteredInLockstep ==
    (Returned /\ Len(input.faces) > 0 /\ Len(input.face_uvs) = Len(input.faces)) =>
        /\ Len(mesh.face_uvs) = rep.faces_after
        /\ \A k \in 1 .. Len(mesh.face_uvs) :
              k <= Len(KeptFaces) => mesh.face_uvs[k] = input.face_uvs[KeptFaces[k]]

\* C5 as stated: qem_simplify has no failure path; every run on a
\* structurally valid mesh goes on to return, and returns success.
C5_NoFailurePath == pc # "crashed" /\ (Returned => ret = TRUE)

\* C6: on a mesh without triangles qem_simplify succeeds and changes nothing:
\* vertices, faces and attributes are as supplied, and the report has
\* facesBefore = facesAfter = 0 and vertsAfter = vertsBefore.
C6_EmptyMeshUnchanged ==
    (Returned /\ Len(input.faces) = 0) =>
        /\ ret = TRUE
        /\ mesh = input
        /\ rep.faces_before = 0 /\ rep.faces_after = 0
        /\ rep.verts_before = Len(input.verts)
        /\ rep.verts_after = rep.verts_before

\* a returned run on a mesh that has vertices and no triangle
C6_Witness == Returned /\ Len(input.faces) = 0 /\ Len(input.verts) > 0

\* the input triangles that are not zero-area
NonZeroFaces(m) == SelectSeq(m.faces, LAMBDA f : ~ZeroArea(m.verts, f))

\* C7 as stated: a zero-area input triangle adds nothing to any vertex
\* quadric and is absent from the output for every choice of options, and a
\* mesh of one degenerate triangle yields facesAfter = 0.
C7_ZeroAreaTrianglesVanish ==
    /\ (pc = "loop" /\ collapsed = 0) => vq = InitQuadrics(input.verts, NonZeroFaces(input))
    /\ Returned => rep.faces_after <= Len(input.faces) - ZeroAreaCount(input)
    /\ (Len(input.faces) = 1 /\ ZeroAreaCount(input) = 1) =>
          (pc # "crashed" /\ (Returned => rep.faces_after = 0))

\* the run was made with ratio = 1.0 and no absolute target
RatioOneRun == opt.ratio = ROne /\ opt.target_faces <= 0

\* C8 as stated: for any mesh, a run with ratio = 1.0 and no target-face
\* override performs no collapse and returns the same vertex count and the
\* same triangle count as the input.
C8_RatioOneKeepsCounts ==
    (Returned /\ RatioOneRun) =>
        /\ collapsed = 0
        /\ rep.verts_after = rep.verts_before
        /\ rep.faces_after = rep.faces_before

\* C8 as it holds: a run with ratio = 1.0 and no target-face override
\* performs no collapse and returns the vertices as supplied; the triangle
\* count is the input's less its zero-area triangles.
C8_RatioOneDropsZeroArea ==
    (Returned /\ RatioOneRun) =>
        /\ collapsed = 0
        /\ mesh.verts = input.verts
        /\ rep.verts_after = rep.verts_before
        /\ rep.faces_after = rep.faces_before - ZeroAreaCount(input)

\* a ratio-1.0 run that kept a triangle and dropped a zero-area one
C8_Witness ==
    Returned /\ RatioOneRun /\ rep.faces_after > 0 /\ rep.faces_after < rep.faces_before

\* the run is on a unit cube with ratio = 0.5 and otherwise default options
CubeRun == input.verts = CubeVerts /\ Len(input.faces) = 12 /\ opt = DefaultOptions

\* C9: a unit cube (8 vertices, 12 triangles) run with ratio = 0.5 and default
\* options ends with facesAfter = 6 and vertsAfter <= 8, in whichever order
\* candidates of equal cost are popped.
C9_CubeHalved ==
    CubeRun =>
        /\ pc # "crashed"
        /\ Returned => (rep.faces_after = 6 /\ rep.verts_after <= 8)

\* a cube run that returned after three collapses
C9_Witness == CubeRun /\ Returned /\ collapsed = 3 /\ rep.faces_after = 6

\* the vertices joined to one of S by a chain of input triangles
RECURSIVE ComponentOf(_, _)
ComponentOf(S, facesS) ==
    LET T == S \cup UNION {Corners(f) : f \in {g \in Range(facesS) : Corners(g) \cap S # {}}}
    IN  IF T = S THEN S ELSE ComponentOf(T, facesS)

SameComponent(u, w) == w \in ComponentOf({u}, input.faces)

\* C10: every pair (u, w) with w in u's adjacency set, and every candidate
\* edge in the heap, joins two vertices of one connected component of the
\* input mesh, after any sequence of collapses.
C10_AdjacencyWithinComponents ==
    /\ \A i \in 1 .. Len(adj) : \A w \in adj[i] : SameComponent(i - 1, w)
    /\ \A e \in BagToSet(heap) : SameComponent(e.u, e.v)

\* two disconnected triangles, each of which has had an edge collapsed
C10_Witness ==
    /\ input.faces = TwoTrianglesMesh.faces
    /\ collapsed = 2
    /\ \E i \in 1 .. Len(adj) : adj[i] # {}

\* the set-up of the run is done: target and the loop's state are in place
InRun == pc \in {"loop", "compact", "done"}

\* the triangles whose liveness flag is set
LiveFaces == {i \in 1 .. Len(face_alive) : face_alive[i]}

ClampedRatio(r) == IF r[1] < 0 THEN <<0, 1>> ELSE IF r[1] > r[2] THEN <<1, 1>> ELSE r
FloorOfShare(faces0, r) == (faces0 * ClampedRatio(r)[1]) \div ClampedRatio(r)[2]

C16_CollapseOnValidEntry ==
    [][collapsed' # collapsed =>
         \E e \in HeapTops(heap) :
            /\ e.u < e.v
            /\ At(v_alive, e.u) /\ At(v_alive, e.v)
            /\ e.v \in At(adj, e.u)
            /\ v_alive' = SetAt(v_alive, e.v, FALSE)
            /\ \A i \in Idx(v_alive) :
                  (At(mesh'.verts, i) # At(mesh.verts, i) \/ At(vq', i) # At(vq, i)) => i = e.u]_vars

\* the loop is running after a collapse, with an entry of a dead vertex
\* still waiting in the heap
C16_Witness ==
    /\ pc = "loop" /\ collapsed > 0
    /\ \E e \in BagToSet(heap) : ~At(v_alive, e.u) \/ ~At(v_alive, e.v)

\* C17 as stated: a dead vertex is in no vertex's adjacency set and its own
\* adjacency set is empty.
C17_DeadVerticesUnreferenced ==
    InRun =>
        \A v \in Idx(v_alive) :
            ~At(v_alive, v) =>
                /\ At(adj, v) = {}
                /\ \A u \in Idx(adj) : v \notin At(adj, u)

\* C18 as stated: in every reachable state, v is in adjacency[u] if and only
\* if u is in adjacency[v].
C18_AdjacencySymmetric ==
    \A u \in Idx(adj) : \A v \in Idx(adj) : (v \in At(adj, u)) <=> (u \in At(adj, v))

\* C19 as stated: an entry that survives the staleness check, and so drives a
\* collapse, carries the cost of its endpoints' current quadrics and
\* positions.
C19_CollapseCostCurrent ==
    (pc = "loop" /\ LoopGuard) =>
        \A e \in HeapTops(heap) :
            ~Stale(e) => e.cost = EdgeCost(vq, mesh.verts, e.u, e.v)

\* C20 as stated: at every loop iteration the live-face counter equals the
\* number of triangles whose liveness flag is set.
C20_CounterMatchesFlags == pc = "loop" => faces_cur = Cardinality(LiveFaces)

\* the binding has handed its tuple back to Python
BindingReturned == call.kind = "binding" /\ pc = "py_returned"

\* C13: whenever simplify_with_uv is given an attribute list with one entry per
\* triangle and returns an attribute list rather than None, that list has
\* facesAfter entries, one per returned triangle, and its i-th entry is the
\* triplet supplied for the input triangle emitted as the i-th output triangle.
C13_ReturnedUvsAligned ==
    (/\ BindingReturned
     /\ ~call.face_uvs.none /\ Len(call.face_uvs.list) = Len(call.faces)
     /\ ~caller.returned.uvs.none) =>
        /\ Len(caller.returned.uvs.list) = rep.faces_after
        /\ Len(caller.returned.uvs.list) = Len(caller.returned.faces)
        /\ Len(caller.returned.uvs.list) = Len(KeptFaces)
        /\ \A k \in 1 .. Len(KeptFaces) :
              caller.returned.uvs.list[k] = call.face_uvs.list[KeptFaces[k]]

\* a call with one triplet per triangle came back with a list for two triangles
C13_Witness ==
    /\ BindingReturned
    /\ ~call.face_uvs.none /\ Len(call.face_uvs.list) = Len(call.faces)
    /\ ~caller.returned.uvs.none /\ Len(caller.returned.uvs.list) = 2

\* the command-line tool has started the stage
Started(stage) == call.kind = "cli" /\ stage \in Range(caller.stages)

\* C14 as stated: the command-line tool detects input errors before any
\* algorithmic work: qem_simplify is started only on a loaded mesh that has at
\* least one vertex and one face and whose every face index references a
\* loaded vertex.
C14_InputErrorsDetectedEarly ==
    Started("simplify") =>
        /\ Len(input.verts) > 0 /\ Len(input.faces) > 0
        /\ IndicesValid(input.verts, input.faces)

\* the flags main knows, each followed by one value
KnownFlags ==
    {"--in", "--out", "--ratio", "--target-faces", "--max-collapses", "--time-limit",
     "--progress-interval"}
FlagPositions(argv) == {i \in 1 .. Len(argv) : i % 2 = 1}
HasPath(argv, flag) == \E i \in FlagPositions(argv) : argv[i] = flag /\ i < Len(argv)
\* a path is missing, or a flag is unrecognized or lacks its value
UsageError(argv) ==
    \/ ~HasPath(argv, "--in") \/ ~HasPath(argv, "--out")
    \/ \E i \in FlagPositions(argv) : argv[i] \notin KnownFlags \/ i = Len(argv)

\* the run of the command-line tool is over
CliEnded == call.kind = "cli" /\ pc \in {"exited", "crashed"}

\* C15 as stated: every run of the command-line tool ends with an exit code of
\* its own: the usage code exactly on a missing path or an unrecognized or
\* incomplete flag, before anything is loaded; distinct non-zero codes when the
\* load, the simplification or the save was the last stage started and failed;
\* and code 0 with the two-line summary exactly when all three stages succeeded.
C15_ExitCodePerOutcome ==
    CliEnded =>
        /\ caller.term = "exit"
        /\ UsageError(call.argv) <=> caller.code = 2
        /\ caller.code = 2 => caller.stages = <<>>
        /\ caller.stages = <<"load">> <=> caller.code = 3
        /\ (caller.stages = <<"load", "simplify">>) <=> caller.code = 4
        /\ (caller.stages = <<"load", "simplify", "save">> /\ caller.written = <<>>)
              <=> caller.code = 5
        /\ caller.summary # <<>> <=>
              (caller.code = 0 /\ caller.stages = <<"load", "simplify", "save">>
                               /\ caller.written # <<>>)


\* the live vertices, and the number of entries in the priority queue
LiveVerts == {v \in Idx(v_alive) : At(v_alive, v)}
HeapSize == BagCardinality(heap)
\* an iteration of the loop can be made or the loop can be left
CanStep == ~LoopGuard \/ \E e \in HeapTops(heap) : TRUE

\* C21 as stated: whatever the mesh and the options, the time limit disabled
\* or not, the collapse loop halts and compaction is reached: every
\* iteration either collapses an edge, which leaves one live vertex fewer, or
\* only pops an entry, which leaves the queue one entry shorter, so finitely
\* many of them occur; an iteration is always possible until the loop is left,
\* and the loop is left for compaction.
C21_LoopHalts ==
    /\ [](pc = "loop" => CanStep)
    /\ [][pc = "loop" =>
            \/ pc' = "compact"
            \/ /\ pc' = "loop"
               /\ \/ /\ collapsed' = collapsed + 1
                     /\ Cardinality(LiveVerts') = Cardinality(LiveVerts) - 1
                  \/ /\ collapsed' = collapsed
                     /\ LiveVerts' = LiveVerts
                     /\ HeapSize' = HeapSize - 1]_vars

\* the collapse cap of the run: maxCollapses when that option is positive,
\* otherwise the initial face count minus the target, never negative
CollapseCap ==
    IF opt.max_collapses > 0 THEN opt.max_collapses ELSE Max(0, Len(input.faces) - target)

\* C22: the number of collapses performed never exceeds the collapse cap,
\* and so the returned mesh has at most cap vertices fewer than the input.
C22_CollapsesWithinCap ==
    (InRun /\ Len(input.faces) > 0) =>
        /\ collapsed <= CollapseCap
        /\ Returned => rep.verts_before - rep.verts_after <= CollapseCap

\* a run returned that the cap stopped: faces above the target and entries in
\* the queue were left
C22_Witness ==
    /\ Returned /\ stop = "guard"
    /\ collapsed = CollapseCap /\ collapsed > 0
    /\ faces_cur > target /\ heap # EmptyBag

\* the live edges: pairs of live vertices u < w with w in u's adjacency set
LiveEdges ==
    {<<u, w>> \in Idx(adj) \X Idx(adj) :
        u < w /\ At(v_alive, u) /\ At(v_alive, w) /\ w \in At(adj, u)}
Scheduled(u, w) == \E e \in BagToSet(heap) : e.u = u /\ e.v = w

\* the live edges that a collapse made: they were not edges of the input mesh
MadeEdges == {p \in LiveEdges : p[2] \notin At(BuildAdjacency(Len(input.verts), input.faces), p[1])}

\* C23: no live edge is ever lost from the scheduler: at every iteration of
\* the loop the priority queue holds an entry (u, w) for every live edge, so
\* the loop stops on an empty queue only when no two live vertices are adjacent.
C23_LiveEdgesScheduled ==
    /\ pc = "loop" => \A p \in LiveEdges : Scheduled(p[1], p[2])
    /\ (pc \in {"compact", "done"} /\ stop = "guard" /\ heap = EmptyBag) => LiveEdges = {}

\* after a collapse that made a new live edge, with stale entries in the queue
C23_Witness ==
    /\ pc = "loop" /\ MadeEdges # {}
    /\ \E e \in BagToSet(heap) : Stale(e)

\* C24: restricted to live vertices, adjacency stays symmetric after any
\* sequence of collapses.
C24_LiveAdjacencySymmetric ==
    InRun => \A u \in Idx(adj) : \A w \in Idx(adj) :
                (At(v_alive, u) /\ At(v_alive, w)) => (w \in At(adj, u) <=> u \in At(adj, w))

\* after a collapse that made a new live edge, while a dead vertex is still
\* listed by its survivor
C24_Witness ==
    /\ pc = "loop" /\ MadeEdges # {}
    /\ \E u \in Idx(adj) : \E w \in At(adj, u) : ~At(v_alive, w)

\* the indices of the live vertices and of the live triangles, ascending
LiveVertSeq == SelectSeq([i \in 1 .. Len(v_alive) |-> i - 1], LAMBDA v : At(v_alive, v))
\* the new index of a live vertex: its position among the live vertices
NewIndex(v) == Cardinality({w \in LiveVerts : w < v})

\* C25: compaction is order-preserving and dense: the vertex array it writes
\* is the live vertices in their original order, so a live vertex gets as new
\* index its rank among the live ones, and the triangle array it writes is the
\* live triangles in their original order, each corner rewritten to the new
\* index of the vertex it referenced.
C25_CompactionOrderPreserving ==
    [][(pc = "compact" /\ pc' = "done") =>
          /\ Len(mesh'.verts) = Len(LiveVertSeq)
          /\ \A k \in 1 .. Len(LiveVertSeq) : mesh'.verts[k] = At(mesh.verts, LiveVertSeq[k])
          /\ Len(mesh'.faces) = Len(KeptFaces)
          /\ \A k \in 1 .. Len(KeptFaces) :
                LET f == mesh.faces[KeptFaces[k]]
                IN  /\ Corners(f) \subseteq LiveVerts
                    /\ mesh'.faces[k] = Tri(NewIndex(f.a), NewIndex(f.b), NewIndex(f.c))]_vars

\* a compacted mesh in which a vertex after a dead one was moved down and a
\* triangle after a dead one was moved up
C25_Witness ==
    /\ Returned
    /\ \E v \in LiveVerts : NewIndex(v) < v
    /\ \E k \in 1 .. Len(KeptFaces) : KeptFaces[k] > k

\* C26 as stated: the priority ordering breaks cost ties by a fixed rule, so
\* with the time limit disabled the entry each iteration pops is determined
\* by the input and the options: the ordering puts exactly one entry of the
\* queue on top.
C26_PopOrderDetermined ==
    (pc = "loop" /\ LoopGuard /\ opt.time_limit <= 0) => Cardinality(HeapTops(heap)) = 1
====
